---- MODULE Spec2Model ----
(***************************************************************************)
(* A model of the glyph rendering, caching and compositing engine of       *)
(* dni-clock: the 2D buffer Vec2d (buf2d.rs), the colour helpers           *)
(* (colors.rs), the line writer TextBuffer and the glyph cache (glyphs.rs).*)
(*                                                                         *)
(* A panic is modelled as a result record with ok = FALSE together with    *)
(* the state the panicking call left behind; the process then stops.       *)
(* usize arithmetic is modelled on the naturals, and a subtraction that    *)
(* would go below zero as a failed call (see checked_sub).  A Color is a   *)
(* u32 modelled as an integer; TLC's integers are 32-bit signed, so the    *)
(* unused top byte ranges over 0..127 only.  An f32 is modelled as an      *)
(* exact rational: an opacity is Num / OpacityDen and a scale is an        *)
(* integer, for which the f32 products the code forms are exact.           *)
(***************************************************************************)
EXTENDS Integers, Sequences, FiniteSets, TLC

VARIABLES
    dst,        \* the Vec2d operated on (buf2d.rs)
    text,       \* the TextBuffer: buf, x, y, height (glyphs.rs)
    cache,      \* the Cache inside Glyphs: scale, dni_digits, dni_numerals, colon
    call,       \* the last call made: its name, arguments, pre-state and result
    prev,       \* the call made before `call`
    panicked    \* TRUE once a call has panicked

vars == <<dst, text, cache, call, prev, panicked>>

Min(a, b) == IF a <= b THEN a ELSE b
Max(a, b) == IF a >= b THEN a ELSE b

---------------------------------------------------------------------------
(* colors.rs *)

BLACK == 0

\* (r << 16) | (g << 8) | b, the channels being u8
from_u8_rgb(r, g, b) == r * 65536 + g * 256 + b

WHITE == from_u8_rgb(255, 255, 255)

BG == BLACK
FG == WHITE

\* let [_a, r, g, b] = color.to_be_bytes()
to_u8_rgb(color) ==
    << (color \div 65536) % 256, (color \div 256) % 256, color % 256 >>

\* The denominator of the modelled opacities: an opacity is num / OpacityDen.
OpacityDen == 4

\* opacity.clamp(0.0, u8::MAX.into()), on the numerator
clamp_opacity(num) == Max(0, Min(num, 255 * OpacityDen))

\* (f32::from(ch) * opacity).round() as u8 for a non-negative opacity:
\* f32::round rounds half away from zero, `as u8` saturates at 255.
scale_channel(ch, num) ==
    Min(255, (2 * ch * num + OpacityDen) \div (2 * OpacityDen))

darken(color, num) ==
    LET opacity == clamp_opacity(num)
        rgb     == to_u8_rgb(color)
    IN  from_u8_rgb(scale_channel(rgb[1], opacity),
                    scale_channel(rgb[2], opacity),
                    scale_channel(rgb[3], opacity))

\* r as u16 + g as u16 + b as u16
sum_rgb(color) ==
    LET rgb == to_u8_rgb(color) IN rgb[1] + rgb[2] + rgb[3]

FG_RGB_SUM == sum_rgb(FG)

\* a - b on an unsigned type: ok is FALSE when the result would be negative
\* (a panic with overflow checks on, a wrapped value without them).
checked_sub(a, b) == [ok |-> a >= b, val |-> IF a >= b THEN a - b ELSE 0]

OVERWRITE_THRESHOLD == 100 * 3

\* colors::pixel_is_transparent: FG_RGB_SUM - sum_rgb(px) > OVERWRITE_THRESHOLD
pixel_is_transparent(px) ==
    LET d == checked_sub(FG_RGB_SUM, sum_rgb(px))
    IN  [ok |-> d.ok, val |-> d.ok /\ d.val > OVERWRITE_THRESHOLD]

---------------------------------------------------------------------------
(* buf2d.rs: a Vec2d is [vec |-> the flat sequence, width |-> a natural] *)

Vec2dDefault == [vec |-> << >>, width |-> 0]

width(self) == self.width

\* self.vec.len().checked_div(self.width).unwrap_or(0)
height(self) == IF self.width = 0 THEN 0 ELSE Len(self.vec) \div self.width

index_2d_to_1d(w, x, y) == y * w + x

\* row_index..(row_index+width), as <<start, end>>
row_range(w, y) == << y * w, y * w + w >>

\* &self.vec[range]: panics when the range ends past the sequence
row(self, y) ==
    LET r == row_range(self.width, y)
    IN  IF r[2] <= Len(self.vec)
        THEN [ok |-> TRUE, val |-> SubSeq(self.vec, r[1] + 1, r[2])]
        ELSE [ok |-> FALSE, val |-> << >>]

\* vec![value; width * height]
Vec2dNew(value, w, h) == [vec |-> [i \in 1..(w * h) |-> value], width |-> w]

\* Index: &self.vec[index_2d_to_1d(self.width, x, y)]
Index(self, x, y) ==
    LET i == index_2d_to_1d(self.width, x, y)
    IN  IF i < Len(self.vec)
        THEN [ok |-> TRUE, val |-> self.vec[i + 1]]
        ELSE [ok |-> FALSE, val |-> 0]

\* IndexMut followed by the assignment of v
IndexMut(self, x, y, v) ==
    LET i == index_2d_to_1d(self.width, x, y)
    IN  IF i < Len(self.vec)
        THEN [ok |-> TRUE, buf |-> [self EXCEPT !.vec[i + 1] = v]]
        ELSE [ok |-> FALSE, buf |-> self]

\* fits with the height half of the assertion left out
fits_width_only(self, start_x, start_y, src) ==
    start_x + width(src) <= width(self)

\* the assert! that opens copy_to_from and copy_to_from_if
fits(self, start_x, start_y, src) ==
    /\ start_x + width(src) <= width(self)
    /\ start_y + height(src) <= height(self)

\* One pass of the row loop of copy_to_from and the passes after it:
\* self.row_mut(self_y)[self_x_range].copy_from_slice(src.row(src_y))
RECURSIVE copy_rows(_, _, _, _, _)
copy_rows(self, start_x, start_y, src, src_y) ==
    IF src_y >= height(src) THEN [ok |-> TRUE, buf |-> self]
    ELSE
        LET self_y  == src_y + start_y
            dr      == row_range(self.width, self_y)
            src_row == row(src, src_y)
            first   == dr[1] + start_x
            last    == dr[1] + start_x + width(src)
        IN  IF \/ dr[2] > Len(self.vec)
               \/ start_x + width(src) > self.width
               \/ ~src_row.ok
            THEN [ok |-> FALSE, buf |-> self]
            ELSE copy_rows(
                    [self EXCEPT !.vec =
                        [i \in 1..Len(self.vec) |->
                            IF first < i /\ i <= last
                            THEN src_row.val[i - first]
                            ELSE self.vec[i]]],
                    start_x, start_y, src, src_y + 1)

copy_to_from(self, start_x, start_y, src) ==
    IF ~fits(self, start_x, start_y, src)
    THEN [ok |-> FALSE, buf |-> self]
    ELSE copy_rows(self, start_x, start_y, src, 0)

\* The predicates handed to copy_to_from_if, by name.
always_true(v) == TRUE
always_false(v) == FALSE

\* TextBuffer::pixel_is_somewhat_transparent (glyphs.rs):
\* FG_RGB_SUM - sum_rgb(px) > THRESHOLD * 3
THRESHOLD == 100

\* the threshold compared without the factor of three
pixel_is_somewhat_transparent_unscaled(px) ==
    LET d == checked_sub(FG_RGB_SUM, sum_rgb(px))
    IN  [ok |-> d.ok, val |-> d.ok /\ d.val > THRESHOLD]

pixel_is_somewhat_transparent(px) ==
    LET d == checked_sub(FG_RGB_SUM, sum_rgb(px))
    IN  [ok |-> d.ok, val |-> d.ok /\ d.val > THRESHOLD * 3]

should_overwrite(p, v) ==
    CASE p = "always_true"  -> [ok |-> TRUE, val |-> always_true(v)]
      [] p = "always_false" -> [ok |-> TRUE, val |-> always_false(v)]
      [] OTHER              -> pixel_is_somewhat_transparent(v)

\* copy_cells with the predicate given the source value, not the current one
RECURSIVE copy_cells_test_src(_, _, _, _, _, _, _)
copy_cells_test_src(self, start_x, start_y, src, p, k, evals) ==
    IF k >= width(src) * height(src)
    THEN [ok |-> TRUE, buf |-> self, evals |-> evals]
    ELSE
        LET src_x  == k \div height(src)
            src_y  == k % height(src)
            self_x == src_x + start_x
            self_y == src_y + start_y
            cur    == Index(self, self_x, self_y)
            from   == Index(src, src_x, src_y)
            test   == should_overwrite(p, from.val)
            seen   == Append(evals, <<self_x, self_y, from.val>>)
        IN  IF ~cur.ok \/ ~from.ok
            THEN [ok |-> FALSE, buf |-> self, evals |-> evals]
            ELSE IF ~test.ok THEN [ok |-> FALSE, buf |-> self, evals |-> seen]
            ELSE IF ~test.val
                 THEN copy_cells_test_src(self, start_x, start_y, src, p, k + 1, seen)
            ELSE copy_cells_test_src(IndexMut(self, self_x, self_y, from.val).buf,
                                     start_x, start_y, src, p, k + 1, seen)

\* The k-th pass of the nested loops of copy_to_from_if (src_x outside,
\* src_y inside) and the passes after it.  evals lists, in order, the
\* destination cell and the value each evaluation of the predicate was given.
RECURSIVE copy_cells(_, _, _, _, _, _, _)
copy_cells(self, start_x, start_y, src, p, k, evals) ==
    IF k >= width(src) * height(src)
    THEN [ok |-> TRUE, buf |-> self, evals |-> evals]
    ELSE
        LET src_x  == k \div height(src)
            src_y  == k % height(src)
            self_x == src_x + start_x
            self_y == src_y + start_y
            cur    == Index(self, self_x, self_y)
            test   == should_overwrite(p, cur.val)
            from   == Index(src, src_x, src_y)
            seen   == Append(evals, <<self_x, self_y, cur.val>>)
        IN  IF ~cur.ok THEN [ok |-> FALSE, buf |-> self, evals |-> evals]
            ELSE IF ~test.ok THEN [ok |-> FALSE, buf |-> self, evals |-> seen]
            ELSE IF ~test.val
                 THEN copy_cells(self, start_x, start_y, src, p, k + 1, seen)
            ELSE IF ~from.ok THEN [ok |-> FALSE, buf |-> self, evals |-> seen]
            ELSE copy_cells(IndexMut(self, self_x, self_y, from.val).buf,
                            start_x, start_y, src, p, k + 1, seen)

copy_to_from_if(self, start_x, start_y, src, p) ==
    IF ~fits(self, start_x, start_y, src)
    THEN [ok |-> FALSE, buf |-> self, evals |-> << >>]
    ELSE copy_cells(self, start_x, start_y, src, p, 0, << >>)

---------------------------------------------------------------------------
(* glyphs.rs: a TextBuffer is [buf, x, y, height] *)

\* _write_glyph with the glyph put at the bottom of the line, not centred
write_glyph_generic_bottom(self, glyph, compose) ==
    LET height_diff == checked_sub(self.height, height(glyph))
        centered_y  == self.y + height_diff.val
        r == IF compose
             THEN copy_to_from_if(self.buf, self.x, centered_y, glyph,
                                  "pixel_is_somewhat_transparent")
             ELSE copy_to_from(self.buf, self.x, centered_y, glyph)
    IN  IF ~height_diff.ok THEN [ok |-> FALSE, text |-> self]
        ELSE IF ~r.ok THEN [ok |-> FALSE, text |-> [self EXCEPT !.buf = r.buf]]
        ELSE [ok |-> TRUE,
              text |-> [self EXCEPT !.buf = r.buf, !.x = self.x + width(glyph)]]

\* TextBuffer::_write_glyph::<COMPOSE>
write_glyph_generic(self, glyph, compose) ==
    LET height_diff == checked_sub(self.height, height(glyph))
        centered_y  == self.y + height_diff.val \div 2
        r == IF compose
             THEN copy_to_from_if(self.buf, self.x, centered_y, glyph,
                                  "pixel_is_somewhat_transparent")
             ELSE copy_to_from(self.buf, self.x, centered_y, glyph)
    IN  IF ~height_diff.ok THEN [ok |-> FALSE, text |-> self]
        ELSE IF ~r.ok THEN [ok |-> FALSE, text |-> [self EXCEPT !.buf = r.buf]]
        ELSE [ok |-> TRUE,
              text |-> [self EXCEPT !.buf = r.buf, !.x = self.x + width(glyph)]]

\* write_glyph that composes like write_glyph_composing
write_glyph_always_composing(self, glyph) == write_glyph_generic(self, glyph, TRUE)

write_glyph(self, glyph) == write_glyph_generic(self, glyph, FALSE)

\* write_glyph_composing that overwrites like write_glyph
write_glyph_composing_overwriting(self, glyph) == write_glyph_generic(self, glyph, FALSE)

write_glyph_composing(self, glyph) == write_glyph_generic(self, glyph, TRUE)

(* The font capability (ab_glyph) is outside the repository.  A font is
   modelled by the parameters that fix, for every character, the size of its
   pixel bounds and the coverage of each of its pixels:
   [base |-> the least width, seed |-> a number, height |-> the height]. *)

\* The greatest height of a glyph, and the number of different widths.
MaxGlyphH == 2
MaxGlyphW == 3

\* glyph.px_bounds().width() as usize and .height() as usize
px_width(font, c) == font.base + ((c + font.seed) % MaxGlyphW)
px_height(font, c) == font.height

\* The coverage glyph.draw reports for the pixel (x, y), as a numerator
coverage(font, c, x, y) == (c + font.seed + x + 2 * y) % (OpacityDen + 1)

\* glyph.draw(|x, y, c| buf[(x, y)] = colors::darken(colors::FG, c)) on the
\* pixels from the k-th on, in row order
RECURSIVE draw(_, _, _, _)
draw(buf, font, c, k) ==
    IF k >= px_width(font, c) * px_height(font, c) THEN buf
    ELSE LET x == k % px_width(font, c)
             y == k \div px_width(font, c)
         IN  draw(IndexMut(buf, x, y, darken(FG, coverage(font, c, x, y))).buf,
                  font, c, k + 1)

render_scaled_glyph(font, c, scale) ==
    draw(Vec2dNew(BG, px_width(font, c), px_height(font, c)), font, c, 0)

\* b"0123456789)!@#$%^&*([]\\{}|", as character codes
DIGITS ==
    << 48, 49, 50, 51, 52, 53, 54, 55, 56, 57,
       41, 33, 64, 35, 36, 37, 94, 38, 42, 40,
       91, 93, 92, 123, 125, 124 >>

n_to_dni(n) == DIGITS[n + 1]

\* the character ':'
COLON == 58

\* digit_overlap with the quarter of the scale rounded down
digit_overlap_floor(scale) == IF scale < 0 THEN 0 ELSE scale \div 4

\* (scale * 0.25).round() as usize: halves round away from zero, a negative
\* value becomes 0
digit_overlap(scale) == IF scale < 0 THEN 0 ELSE (scale + 2) \div 4

\* Cache::generate; dni_digits[i + 1] is the glyph of the digit i and
\* dni_numerals[n + 1] the slot of the numeral n
None == [some |-> FALSE]
Some(b) == [some |-> TRUE, buf |-> b]

generate(scale, dni_font, ascii_font) ==
    [scale        |-> scale,
     dni_digits   |-> [i \in 1..25 |->
                        render_scaled_glyph(dni_font, n_to_dni(i - 1), scale)],
     dni_numerals |-> [i \in 1..60 |-> None],
     colon        |-> render_scaled_glyph(ascii_font, COLON, scale)]

\* compose_numeral with the second glyph overwriting the first
compose_numeral_overwriting(scale, dni_digits, n) ==
    LET digit1     == n % 25
        digit2     == (n - digit1) \div 25
        digit1_buf == dni_digits[digit1 + 1]
        digit2_buf == dni_digits[digit2 + 1]
        overlap    == digit_overlap(scale)
        w          == checked_sub(width(digit1_buf) + width(digit2_buf), overlap)
        h          == height(digit1_buf)
        n_buf      == [buf |-> Vec2dNew(BG, w.val, h), x |-> 0, y |-> 0, height |-> h]
        first      == write_glyph_composing(n_buf, digit2_buf)
        back       == checked_sub(first.text.x, overlap)
        second     == write_glyph([first.text EXCEPT !.x = back.val], digit1_buf)
    IN  IF ~w.ok \/ h # height(digit2_buf) THEN [ok |-> FALSE, buf |-> Vec2dDefault]
        ELSE IF ~first.ok \/ ~back.ok THEN [ok |-> FALSE, buf |-> first.text.buf]
        ELSE [ok |-> second.ok, buf |-> second.text.buf]

\* Cache::compose_numeral.  The debug assertions on the digits hold for
\* every u8; the one on the heights fails the call where it is compiled in,
\* and never fires for the fonts modelled, whose digits are equally high.
compose_numeral(scale, dni_digits, n) ==
    LET digit1     == n % 25
        digit2     == (n - digit1) \div 25
        digit1_buf == dni_digits[digit1 + 1]
        digit2_buf == dni_digits[digit2 + 1]
        overlap    == digit_overlap(scale)
        w          == checked_sub(width(digit1_buf) + width(digit2_buf), overlap)
        h          == height(digit1_buf)
        n_buf      == [buf |-> Vec2dNew(BG, w.val, h), x |-> 0, y |-> 0, height |-> h]
        first      == write_glyph_composing(n_buf, digit2_buf)
        back       == checked_sub(first.text.x, overlap)
        second     == write_glyph_composing([first.text EXCEPT !.x = back.val],
                                            digit1_buf)
    IN  IF ~w.ok \/ h # height(digit2_buf) THEN [ok |-> FALSE, buf |-> Vec2dDefault]
        ELSE IF ~first.ok \/ ~back.ok THEN [ok |-> FALSE, buf |-> first.text.buf]
        ELSE [ok |-> second.ok, buf |-> second.text.buf]

\* &self.cache.dni_digits[usize::from(n)]
get_dni_number_one_digit(c, n) ==
    IF n < 25 THEN [ok |-> TRUE, buf |-> c.dni_digits[n + 1], cache |-> c]
    ELSE [ok |-> FALSE, buf |-> Vec2dDefault, cache |-> c]

\* get_dni_number_two_digits with the numeral stored in the slot of its
\* last digit
get_dni_number_two_digits_by_digit(c, n) ==
    LET slot == (n % 25) + 1
        made == compose_numeral(c.scale, c.dni_digits, n)
    IN  IF n >= 60
        THEN [ok |-> FALSE, buf |-> Vec2dDefault, cache |-> c, composed |-> FALSE]
        ELSE IF c.dni_numerals[slot].some
        THEN [ok |-> TRUE, buf |-> c.dni_numerals[slot].buf, cache |-> c,
              composed |-> FALSE]
        ELSE IF ~made.ok
        THEN [ok |-> FALSE, buf |-> Vec2dDefault, cache |-> c, composed |-> TRUE]
        ELSE [ok |-> TRUE, buf |-> made.buf,
              cache |-> [c EXCEPT !.dni_numerals[slot] = Some(made.buf)],
              composed |-> TRUE]

\* cache.dni_numerals[usize::from(n)].get_or_insert_with(|| compose_numeral(..));
\* composed tells whether the closure ran
get_dni_number_two_digits(c, n) ==
    LET slot == n + 1
        made == compose_numeral(c.scale, c.dni_digits, n)
    IN  IF n >= 60
        THEN [ok |-> FALSE, buf |-> Vec2dDefault, cache |-> c, composed |-> FALSE]
        ELSE IF c.dni_numerals[slot].some
        THEN [ok |-> TRUE, buf |-> c.dni_numerals[slot].buf, cache |-> c,
              composed |-> FALSE]
        ELSE IF ~made.ok
        THEN [ok |-> FALSE, buf |-> Vec2dDefault, cache |-> c, composed |-> TRUE]
        ELSE [ok |-> TRUE, buf |-> made.buf,
              cache |-> [c EXCEPT !.dni_numerals[slot] = Some(made.buf)],
              composed |-> TRUE]

\* &self.cache.colon
get_colon(c) == [ok |-> TRUE, buf |-> c.colon, cache |-> c]

---------------------------------------------------------------------------
(* The calls on one Vec2d: an indexed read or write, or a region copy. *)

\* The greatest width and height of a buffer, and the greatest coordinate
\* and offset tried.
MaxW == 2
MaxH == 2

BufValues == {BG, FG}

\* The source buffers: every size, filled with a pattern that tells the
\* cells of a buffer apart.
PatternSeeds == 0..2

PatternCell(seed, x, y) == IF (seed + x + 2 * y) % 3 = 0 THEN FG ELSE BG

PatternBuf(seed, w, h) ==
    [vec |-> [i \in 1..(w * h) |->
                PatternCell(seed, (i - 1) % w, (i - 1) \div w)],
     width |-> w]

SrcBufs == {PatternBuf(s, w, h) : s \in PatternSeeds, w \in 0..MaxW, h \in 0..MaxH}

Predicates == {"always_true", "always_false", "pixel_is_somewhat_transparent"}

NoText == [buf |-> Vec2dDefault, x |-> 0, y |-> 0, height |-> 0]
NoCache == [scale |-> 0, dni_digits |-> << >>, dni_numerals |-> << >>,
            colon |-> Vec2dDefault]
NoCall == [op |-> "none"]

\* The buffers the calls are made on: the default one, the ones Vec2d::new
\* builds and patterned ones, as indexed writes leave them.
DstBufs ==
    {Vec2dDefault}
        \cup {Vec2dNew(v, w, h) : v \in BufValues, w \in 0..MaxW, h \in 0..MaxH}
        \cup SrcBufs

\* A Vec2d has no state besides vec and width, so each call is made once,
\* on each of these buffers.
InitVec2d ==
    /\ dst \in DstBufs
    /\ text = NoText
    /\ cache = NoCache
    /\ call = NoCall
    /\ prev = NoCall
    /\ panicked = FALSE

\* let v = dst[(x, y)]
Get(x, y) ==
    LET r == Index(dst, x, y)
    IN  /\ call = NoCall
        /\ call' = [op |-> "get", x |-> x, y |-> y, pre |-> dst,
                    ok |-> r.ok, val |-> r.val]
        /\ panicked' = ~r.ok
        /\ UNCHANGED <<dst, text, cache, prev>>

\* dst[(x, y)] = v
Set(x, y, v) ==
    LET r == IndexMut(dst, x, y, v)
    IN  /\ call = NoCall
        /\ dst' = r.buf
        /\ call' = [op |-> "set", x |-> x, y |-> y, v |-> v, pre |-> dst,
                    ok |-> r.ok]
        /\ panicked' = ~r.ok
        /\ UNCHANGED <<text, cache, prev>>

\* dst.copy_to_from(start_x, start_y, &src)
CopyToFrom(start_x, start_y, src) ==
    LET r == copy_to_from(dst, start_x, start_y, src)
    IN  /\ call = NoCall
        /\ dst' = r.buf
        /\ call' = [op |-> "copy_to_from", x |-> start_x, y |-> start_y,
                    src |-> src, pre |-> dst, ok |-> r.ok]
        /\ panicked' = ~r.ok
        /\ UNCHANGED <<text, cache, prev>>

\* dst.copy_to_from_if(start_x, start_y, &src, p)
CopyToFromIf(start_x, start_y, src, p) ==
    LET r == copy_to_from_if(dst, start_x, start_y, src, p)
    IN  /\ call = NoCall
        /\ dst' = r.buf
        /\ call' = [op |-> "copy_to_from_if", x |-> start_x, y |-> start_y,
                    src |-> src, p |-> p, pre |-> dst, ok |-> r.ok,
                    evals |-> r.evals]
        /\ panicked' = ~r.ok
        /\ UNCHANGED <<text, cache, prev>>

NextVec2d ==
    \/ \E x \in 0..MaxW, y \in 0..MaxH : Get(x, y)
    \/ \E x \in 0..MaxW, y \in 0..MaxH, v \in BufValues : Set(x, y, v)
    \/ \E x \in 0..MaxW, y \in 0..MaxH, src \in SrcBufs : CopyToFrom(x, y, src)
    \/ \E x \in 0..MaxW, y \in 0..MaxH, src \in SrcBufs, p \in Predicates :
            CopyToFromIf(x, y, src, p)

SpecVec2d == InitVec2d /\ [][NextVec2d]_vars

\* The cell (x, y) of a buffer of width w, read from the flat sequence.
Cell(b, x, y) == b.vec[y * b.width + x + 1]

\* (x, y) lies in the rectangle of size (w, h) whose top left is (x0, y0).
InRect(x, y, x0, y0, w, h) ==
    /\ x0 <= x /\ x < x0 + w
    /\ y0 <= y /\ y < y0 + h

(* C1: reading buf[(x, y)] and writing buf[(x, y)] = v fail with a bounds
   error whenever x >= width or y >= height, whether or not the flat index
   y * width + x lies inside the backing sequence, and a failing write
   changes no cell. *)
C1_IndexFailsOutsideBounds ==
    call.op \in {"get", "set"} =>
        /\ (call.x >= width(call.pre) \/ call.y >= height(call.pre)) => ~call.ok
        /\ ~call.ok => dst = call.pre

\* The fit condition of a copy, on the sizes of the two buffers.
Fit(b, x, y, src) ==
    /\ x + width(src) <= width(b)
    /\ y + height(src) <= height(b)

\* b is `pre` with the whole of src laid over it at (x0, y0).
IsOverlay(b, pre, x0, y0, src) ==
    /\ b.width = pre.width
    /\ Len(b.vec) = Len(pre.vec)
    /\ \A x \in 0..(width(pre) - 1), y \in 0..(height(pre) - 1) :
            Cell(b, x, y) =
                IF InRect(x, y, x0, y0, width(src), height(src))
                THEN Cell(src, x - x0, y - y0)
                ELSE Cell(pre, x, y)

(* C2: when src fits into dst at (dx, dy), copy_to_from makes every cell of
   the footprint equal to the cell of src it lies under, keeps every other
   cell and the size of dst; when src does not fit the call fails and dst
   is unchanged. *)
C2_CopyToFromOverwritesFootprint ==
    call.op = "copy_to_from" =>
        IF Fit(call.pre, call.x, call.y, call.src)
        THEN call.ok /\ IsOverlay(dst, call.pre, call.x, call.y, call.src)
        ELSE ~call.ok /\ dst = call.pre

\* A copy that fits, lands away from the top left corner and changes dst.
C2_Witness ==
    /\ call.op = "copy_to_from"
    /\ call.ok
    /\ call.x > 0 /\ call.y > 0
    /\ width(call.src) > 0 /\ height(call.src) > 0
    /\ dst # call.pre

\* evals holds one evaluation for each cell of the footprint of src at
\* (x0, y0), each on the value that cell had in pre.
EvaluatedOncePerCell(evals, pre, x0, y0, src) ==
    /\ Len(evals) = width(src) * height(src)
    /\ \A i \in 0..(width(src) - 1), j \in 0..(height(src) - 1) :
            /\ Cardinality({k \in 1..Len(evals) :
                    evals[k][1] = x0 + i /\ evals[k][2] = y0 + j}) = 1
            /\ \A k \in 1..Len(evals) :
                    (evals[k][1] = x0 + i /\ evals[k][2] = y0 + j)
                        => evals[k][3] = Cell(pre, x0 + i, y0 + j)

(* C3: when src fits, copy_to_from_if with a predicate that is always true
   leaves dst as copy_to_from would, with a predicate that is always false
   leaves dst unchanged, and in both cases evaluates the predicate once for
   each cell of the footprint, on the value the cell had before the write. *)
C3_CopyIfTrueIsCopyFalseIsNoop ==
    (/\ call.op = "copy_to_from_if"
     /\ call.p \in {"always_true", "always_false"}
     /\ Fit(call.pre, call.x, call.y, call.src)) =>
        /\ call.ok
        /\ call.p = "always_true" =>
                dst = copy_to_from(call.pre, call.x, call.y, call.src).buf
        /\ call.p = "always_false" => dst = call.pre
        /\ EvaluatedOncePerCell(call.evals, call.pre, call.x, call.y, call.src)

\* An always-true copy of several cells that changes dst.
C3_Witness ==
    /\ call.op = "copy_to_from_if"
    /\ call.p = "always_true"
    /\ call.ok
    /\ Len(call.evals) >= 2
    /\ dst # call.pre

---------------------------------------------------------------------------
(* The colour functions, each applied once to each input. *)

\* Channel values on both sides of the transparency threshold, and the
\* values of the unused top byte.
ChannelValues == {0, 100, 154, 155, 255}
TopBytes == {0, 1, 127}

Pixels ==
    {a * 16777216 + from_u8_rgb(r, g, b) :
        a \in TopBytes, r \in ChannelValues, g \in ChannelValues, b \in ChannelValues}

\* The numerators of the opacities: from -1.0 to 3.0.
OpacityNums == (0 - OpacityDen)..(3 * OpacityDen)

InitColors ==
    /\ dst = Vec2dDefault
    /\ text = NoText
    /\ cache = NoCache
    /\ call = NoCall
    /\ prev = NoCall
    /\ panicked = FALSE

Darken(color, num) ==
    /\ call = NoCall
    /\ call' = [op |-> "darken", color |-> color, num |-> num,
                ret |-> darken(color, num)]
    /\ UNCHANGED <<dst, text, cache, prev, panicked>>

PixelIsTransparent(px) ==
    LET r == pixel_is_transparent(px)
    IN  /\ call = NoCall
        /\ call' = [op |-> "pixel_is_transparent", px |-> px,
                    ok |-> r.ok, val |-> r.val]
        /\ panicked' = ~r.ok
        /\ UNCHANGED <<dst, text, cache, prev>>

PixelIsSomewhatTransparent(px) ==
    LET r == pixel_is_somewhat_transparent(px)
    IN  /\ call = NoCall
        /\ call' = [op |-> "pixel_is_somewhat_transparent", px |-> px,
                    ok |-> r.ok, val |-> r.val]
        /\ panicked' = ~r.ok
        /\ UNCHANGED <<dst, text, cache, prev>>

NextColors ==
    \/ \E color \in Pixels, num \in OpacityNums : Darken(color, num)
    \/ \E px \in Pixels : PixelIsTransparent(px)
    \/ \E px \in Pixels : PixelIsSomewhatTransparent(px)

SpecColors == InitColors /\ [][NextColors]_vars

\* The red (2), green (1) and blue (0) byte of a pixel.
Byte(px, k) == (px \div (IF k = 2 THEN 65536 ELSE IF k = 1 THEN 256 ELSE 1)) % 256

\* n / d rounded to the nearest integer, halves upwards, for n, d > 0 or n = 0
RoundDiv(n, d) == (2 * n + d) \div (2 * d)

\* The numerator of the fraction clamped to [0.0, 1.0]
ClampUnit(num) == IF num < 0 THEN 0 ELSE IF num > OpacityDen THEN OpacityDen ELSE num

(* C4: darken(c, f) clamps f to [0.0, 1.0] and returns, with a zero top
   byte, the channels round(channel(c) * clamp(f, 0, 1)); so darken(c, 1.0)
   is c when the top byte of c is zero, and darken(c, 0.0) is 0. *)
C4_DarkenClampsToUnit ==
    call.op = "darken" =>
        /\ call.ret = from_u8_rgb(
                RoundDiv(Byte(call.color, 2) * ClampUnit(call.num), OpacityDen),
                RoundDiv(Byte(call.color, 1) * ClampUnit(call.num), OpacityDen),
                RoundDiv(Byte(call.color, 0) * ClampUnit(call.num), OpacityDen))
        /\ (call.num = OpacityDen /\ call.color < 16777216) => call.ret = call.color
        /\ call.num = 0 => call.ret = 0

(* C5: for every pixel, whatever its top byte, pixel_is_transparent and
   pixel_is_somewhat_transparent agree; the result is true exactly when
   765 - (r + g + b) > 300; the subtraction does not underflow; Background
   is transparent and Foreground is not. *)
C5_TransparencyPredicatesAgree ==
    call.op \in {"pixel_is_transparent", "pixel_is_somewhat_transparent"} =>
        LET rgb_sum == Byte(call.px, 2) + Byte(call.px, 1) + Byte(call.px, 0)
        IN  /\ call.ok
            /\ call.val = (765 - rgb_sum > 300)
            /\ pixel_is_transparent(call.px) = pixel_is_somewhat_transparent(call.px)
            /\ call.px = BG => call.val
            /\ call.px = FG => ~call.val

\* The predicate applied to an opaque pixel with a non-zero top byte and a
\* brightness just past the threshold.
C5_Witness ==
    /\ call.op = "pixel_is_somewhat_transparent"
    /\ call.px >= 16777216
    /\ Byte(call.px, 2) + Byte(call.px, 1) + Byte(call.px, 0) = 465
    /\ ~call.val

---------------------------------------------------------------------------
(* Cache::compose_numeral, applied once to each numeral for each cache that
   Cache::generate can build. *)

Scales == {0, 2, 6, 40}

\* Narrow fonts of every height, and wide fonts for the scale 40.
NarrowFonts == [base : {1}, seed : 0..1, height : 1..MaxGlyphH]
WideFonts == [base : {10}, seed : 0..1, height : {1}]
DniFonts == NarrowFonts \cup WideFonts

AsciiFonts == {[base |-> 1, seed |-> 0, height |-> 1]}

InitCompose ==
    /\ dst = Vec2dDefault
    /\ text = NoText
    /\ cache \in {generate(scale, dni_font, ascii_font) :
                    scale \in Scales, dni_font \in DniFonts, ascii_font \in AsciiFonts}
    /\ call = NoCall
    /\ prev = NoCall
    /\ panicked = FALSE

ComposeNumeral(n) ==
    LET r == compose_numeral(cache.scale, cache.dni_digits, n)
    IN  /\ call = NoCall
        /\ call' = [op |-> "compose_numeral", n |-> n, ok |-> r.ok, buf |-> r.buf]
        /\ panicked' = ~r.ok
        /\ UNCHANGED <<dst, text, cache, prev>>

NextCompose == \E n \in 0..59 : ComposeNumeral(n)

SpecCompose == InitCompose /\ [][NextCompose]_vars

\* The glyph of the ones digit (digit1) and of the tens digit (digit2) of n,
\* and the overlap: the quarter of the scale, rounded.
OnesGlyph(n) == cache.dni_digits[(n % 25) + 1]
TensGlyph(n) == cache.dni_digits[(n \div 25) + 1]
Overlap == RoundDiv(cache.scale, 4)

EqualHeights ==
    \A i, j \in 1..25 : height(cache.dni_digits[i]) = height(cache.dni_digits[j])

\* The size compose_numeral is to give the numeral n.
ComposedSize(n) ==
    /\ call.ok
    /\ n \div 25 \in 0..2
    /\ height(call.buf) = height(OnesGlyph(n))
    /\ width(call.buf) = width(TensGlyph(n)) + width(OnesGlyph(n)) - Overlap

(* C7, as claimed: for every n in 0..60 and equal-height glyphs of whatever
   widths, compose_numeral(n) completes without a failure and returns a
   buffer as high as a single digit and as wide as the glyph of n div 25
   plus the glyph of n mod 25 minus round(scale * 0.25). *)
C7_ComposedSizeAnyWidths ==
    (call.op = "compose_numeral" /\ EqualHeights) => ComposedSize(call.n)

(* C7, amended: the same, for glyphs that are each at least as wide as the
   overlap round(scale * 0.25). *)
C7_ComposedSize ==
    (/\ call.op = "compose_numeral"
     /\ EqualHeights
     /\ width(OnesGlyph(call.n)) >= Overlap
     /\ width(TensGlyph(call.n)) >= Overlap) => ComposedSize(call.n)

\* The numeral 26 at scale 40: the digit 1 twice, overlapping by 10.
C7_Witness ==
    /\ call.op = "compose_numeral"
    /\ call.n = 26
    /\ cache.scale = 40
    /\ call.ok
    /\ Overlap = 10
    /\ width(call.buf) = 2 * width(cache.dni_digits[2]) - 10

\* A pixel is near Background: 765 - (r + g + b) > 300.
NearBackground(px) == 765 - (Byte(px, 2) + Byte(px, 1) + Byte(px, 0)) > 300

\* The columns of the composed numeral n outside the overlap: those left of
\* it show the tens glyph, those right of it the ones glyph.
OutsideOverlap(n) ==
    LET d1  == OnesGlyph(n)
        d2  == TensGlyph(n)
        off == width(d2) - Overlap
    IN  \A x \in 0..(width(call.buf) - 1), y \in 0..(height(call.buf) - 1) :
            /\ x < off => Cell(call.buf, x, y) = Cell(d2, x, y)
            /\ x >= width(d2) => Cell(call.buf, x, y) = Cell(d1, x - off, y)

(* C10, as claimed: in the overlapping columns every cell where the tens
   glyph has ink of any coverage and the ones glyph is mostly transparent
   holds the pixel of the tens glyph, and every cell where the tens glyph is
   Background holds the pixel of the ones glyph. *)
C10_InkOfAnyCoverageKept ==
    (call.op = "compose_numeral" /\ call.ok) =>
        LET d1  == OnesGlyph(call.n)
            d2  == TensGlyph(call.n)
            off == width(d2) - Overlap
        IN  /\ OutsideOverlap(call.n)
            /\ \A x \in off..(width(d2) - 1), y \in 0..(height(call.buf) - 1) :
                    /\ (Cell(d2, x, y) # BG /\ NearBackground(Cell(d1, x - off, y)))
                            => Cell(call.buf, x, y) = Cell(d2, x, y)
                    /\ Cell(d2, x, y) = BG
                            => Cell(call.buf, x, y) = Cell(d1, x - off, y)

(* C10, amended: in the overlapping columns every cell where the pixel of
   the tens glyph is not mostly transparent holds that pixel, and every cell
   where it is mostly transparent (Background or faint ink) holds the pixel
   of the ones glyph. *)
C10_OpaqueInkKept ==
    (call.op = "compose_numeral" /\ call.ok) =>
        LET d1  == OnesGlyph(call.n)
            d2  == TensGlyph(call.n)
            off == width(d2) - Overlap
        IN  /\ OutsideOverlap(call.n)
            /\ \A x \in off..(width(d2) - 1), y \in 0..(height(call.buf) - 1) :
                    Cell(call.buf, x, y) =
                        IF NearBackground(Cell(d2, x, y))
                        THEN Cell(d1, x - off, y)
                        ELSE Cell(d2, x, y)

\* A composed numeral with an overlapping column in which opaque ink of the
\* tens glyph lies under a different pixel of the ones glyph, and Background
\* of the tens glyph under ink of the ones glyph.
C10_Witness ==
    /\ call.op = "compose_numeral"
    /\ call.ok
    /\ Overlap > 0
    /\ LET d1  == OnesGlyph(call.n)
           d2  == TensGlyph(call.n)
           off == width(d2) - Overlap
           col == {<<x, y>> : x \in off..(width(d2) - 1), y \in 0..(height(call.buf) - 1)}
       IN  /\ \E c \in col :
                /\ ~NearBackground(Cell(d2, c[1], c[2]))
                /\ Cell(d1, c[1] - off, c[2]) # Cell(d2, c[1], c[2])
           /\ \E c \in col :
                /\ Cell(d2, c[1], c[2]) = BG
                /\ Cell(d1, c[1] - off, c[2]) # BG

---------------------------------------------------------------------------
(* The calls on the cache of one Glyphs, until one of them panics. *)

OneDigitArgs == {0, 1, 24, 25}
TwoDigitArgs == {0, 1, 26, 59, 60}

InitCache ==
    /\ dst = Vec2dDefault
    /\ text = NoText
    /\ cache \in {generate(scale, dni_font, ascii_font) :
                    scale \in Scales, dni_font \in DniFonts, ascii_font \in AsciiFonts}
    /\ call = NoCall
    /\ prev = NoCall
    /\ panicked = FALSE

GetDniNumberOneDigit(n) ==
    LET r == get_dni_number_one_digit(cache, n)
    IN  /\ ~panicked
        /\ cache' = r.cache
        /\ call' = [op |-> "get_dni_number_one_digit", n |-> n, pre |-> cache,
                    ok |-> r.ok, buf |-> r.buf, composed |-> FALSE]
        /\ panicked' = ~r.ok
        /\ UNCHANGED <<dst, text, prev>>

GetDniNumberTwoDigits(n) ==
    LET r == get_dni_number_two_digits(cache, n)
    IN  /\ ~panicked
        /\ cache' = r.cache
        /\ call' = [op |-> "get_dni_number_two_digits", n |-> n, pre |-> cache,
                    ok |-> r.ok, buf |-> r.buf, composed |-> r.composed]
        /\ panicked' = ~r.ok
        /\ UNCHANGED <<dst, text, prev>>

GetColon ==
    LET r == get_colon(cache)
    IN  /\ ~panicked
        /\ cache' = r.cache
        /\ call' = [op |-> "get_colon", n |-> 0, pre |-> cache,
                    ok |-> r.ok, buf |-> r.buf, composed |-> FALSE]
        /\ panicked' = ~r.ok
        /\ UNCHANGED <<dst, text, prev>>

NextCache ==
    \/ \E n \in OneDigitArgs : GetDniNumberOneDigit(n)
    \/ \E n \in TwoDigitArgs : GetDniNumberTwoDigits(n)
    \/ GetColon

SpecCache == InitCache /\ [][NextCache]_vars

(* C6: the two-digit table starts empty; a slot n is populated only by
   get_dni_number_two_digits(n) and then holds compose_numeral(scale, single
   digits, n); a populated slot is never emptied or changed, and a repeated
   get_dni_number_two_digits(n) returns its content without composing
   again; no call changes another slot, a single-digit glyph, the colon or
   the scale. *)
C6_TwoDigitCacheFillsOnMiss ==
    /\ call = NoCall => \A i \in 1..60 : ~cache.dni_numerals[i].some
    /\ call # NoCall =>
        /\ cache.scale = call.pre.scale
        /\ cache.dni_digits = call.pre.dni_digits
        /\ cache.colon = call.pre.colon
        /\ \A i \in 1..60 :
                /\ call.pre.dni_numerals[i].some
                        => cache.dni_numerals[i] = call.pre.dni_numerals[i]
                /\ cache.dni_numerals[i] # call.pre.dni_numerals[i]
                        => /\ call.op = "get_dni_number_two_digits"
                           /\ call.n = i - 1
        /\ (/\ call.op = "get_dni_number_two_digits"
            /\ call.n < 60
            /\ call.pre.dni_numerals[call.n + 1].some)
                => /\ call.ok
                   /\ ~call.composed
                   /\ call.buf = call.pre.dni_numerals[call.n + 1].buf
                   /\ cache = call.pre
        /\ (call.op = "get_dni_number_two_digits" /\ call.ok)
                => /\ cache.dni_numerals[call.n + 1] = Some(call.buf)
                   /\ call.composed =>
                        call.buf = compose_numeral(call.pre.scale,
                                                   call.pre.dni_digits, call.n).buf

\* A second get_dni_number_two_digits(26), answered from the table while
\* another slot is populated too.
C6_Witness ==
    /\ call.op = "get_dni_number_two_digits"
    /\ call.n = 26
    /\ call.ok
    /\ ~call.composed
    /\ call.pre.dni_numerals[27].some
    /\ cache.dni_numerals[60].some

---------------------------------------------------------------------------
(* A TextBuffer that two glyphs are written into, the cursor being moved
   back in between as compose_numeral does.  A call records the TextBuffer
   it found (pre) and the one it left (post). *)

\* The size of the destination buffer.
TextW == 4
TextH == 4

TextGlyphs == {render_scaled_glyph(f, c, 0) : f \in NarrowFonts, c \in {48, 49, 50}}

InitTextBuffer ==
    /\ dst = Vec2dDefault
    /\ text \in {[buf |-> Vec2dNew(BG, TextW, TextH), x |-> x, y |-> y, height |-> h] :
                    x \in 0..1, y \in 0..1, h \in 0..TextH}
    /\ cache = NoCache
    /\ call = NoCall
    /\ prev = NoCall
    /\ panicked = FALSE

WriteGlyph(glyph) ==
    LET r == write_glyph(text, glyph)
    IN  /\ ~panicked
        /\ prev = NoCall
        /\ text' = r.text
        /\ call' = [op |-> "write_glyph", glyph |-> glyph, pre |-> text,
                    ok |-> r.ok, post |-> r.text]
        /\ prev' = call
        /\ panicked' = ~r.ok
        /\ UNCHANGED <<dst, cache>>

WriteGlyphComposing(glyph) ==
    LET r == write_glyph_composing(text, glyph)
    IN  /\ ~panicked
        /\ prev = NoCall
        /\ text' = r.text
        /\ call' = [op |-> "write_glyph_composing", glyph |-> glyph, pre |-> text,
                    ok |-> r.ok, post |-> r.text]
        /\ prev' = call
        /\ panicked' = ~r.ok
        /\ UNCHANGED <<dst, cache>>

\* text.x -= d
MoveBack(d) ==
    LET r == checked_sub(text.x, d)
    IN  /\ ~panicked
        /\ call # NoCall
        /\ prev = NoCall
        /\ text' = [text EXCEPT !.x = r.val]
        /\ panicked' = ~r.ok
        /\ UNCHANGED <<dst, cache, call, prev>>

NextTextBuffer ==
    \/ \E g \in TextGlyphs : WriteGlyph(g)
    \/ \E g \in TextGlyphs : WriteGlyphComposing(g)
    \/ \E d \in 1..MaxGlyphW : MoveBack(d)

SpecTextBuffer == InitTextBuffer /\ [][NextTextBuffer]_vars

\* b is `pre` with src laid over it at (x0, y0) wherever `pre` is near
\* Background.
IsGatedOverlay(b, pre, x0, y0, src) ==
    /\ b.width = pre.width
    /\ Len(b.vec) = Len(pre.vec)
    /\ \A x \in 0..(width(pre) - 1), y \in 0..(height(pre) - 1) :
            Cell(b, x, y) =
                IF /\ InRect(x, y, x0, y0, width(src), height(src))
                   /\ NearBackground(Cell(pre, x, y))
                THEN Cell(src, x - x0, y - y0)
                ELSE Cell(pre, x, y)

\* The row a write of c puts the top of its glyph in.
CenteredY(c) == c.pre.y + (c.pre.height - height(c.glyph)) \div 2

(* C8: write_glyph and write_glyph_composing with a glyph no higher than
   the line that fits the destination blit the glyph with its top left at
   (x, y + floor((L - gh) / 2)), add the width of the glyph to cursor x and
   keep cursor y and L; with a glyph higher than the line the call fails
   and neither the buffer nor the cursor changes. *)
C8_WriteGlyphCentresAndAdvances ==
    call.op \in {"write_glyph", "write_glyph_composing"} =>
        IF height(call.glyph) > call.pre.height
        THEN ~call.ok /\ call.post = call.pre
        ELSE Fit(call.pre.buf, call.pre.x, CenteredY(call), call.glyph) =>
                /\ call.ok
                /\ call.post.x = call.pre.x + width(call.glyph)
                /\ call.post.y = call.pre.y
                /\ call.post.height = call.pre.height
                /\ call.op = "write_glyph" =>
                        IsOverlay(call.post.buf, call.pre.buf, call.pre.x,
                                  CenteredY(call), call.glyph)
                /\ call.op = "write_glyph_composing" =>
                        IsGatedOverlay(call.post.buf, call.pre.buf, call.pre.x,
                                       CenteredY(call), call.glyph)

\* A glyph written one row below the top of a line three rows higher than it.
C8_Witness ==
    /\ call.op = "write_glyph"
    /\ call.ok
    /\ call.pre.height - height(call.glyph) = 3
    /\ call.pre.y = 1
    /\ Cell(call.post.buf, call.pre.x, 2) # BG

\* The cells that the footprints of the two writes share.
SharedCells ==
    {c \in (0..(TextW - 1)) \X (0..(TextH - 1)) :
        /\ InRect(c[1], c[2], prev.pre.x, CenteredY(prev),
                  width(prev.glyph), height(prev.glyph))
        /\ InRect(c[1], c[2], call.pre.x, CenteredY(call),
                  width(call.glyph), height(call.glyph))}

(* C9: after write_glyph(A), a write_glyph_composing(B) over an overlapping
   position gives a cell of the footprint of B the pixel of B exactly when
   the cell was mostly transparent before; the cells of the footprint that
   hold opaque content of A, and the cells outside the footprint, keep
   their value. *)
C9_ComposeKeepsOpaqueContent ==
    (/\ prev.op = "write_glyph" /\ prev.ok
     /\ call.op = "write_glyph_composing" /\ call.ok
     /\ SharedCells # {}) =>
        /\ \A c \in SharedCells :
                Cell(call.pre.buf, c[1], c[2]) =
                    Cell(prev.glyph, c[1] - prev.pre.x, c[2] - CenteredY(prev))
        /\ IsGatedOverlay(call.post.buf, call.pre.buf, call.pre.x, CenteredY(call),
                          call.glyph)

\* Two overlapping writes where an opaque pixel of A stays under a
\* different pixel of B and a transparent pixel of A gives way to ink of B.
C9_Witness ==
    /\ prev.op = "write_glyph" /\ prev.ok
    /\ call.op = "write_glyph_composing" /\ call.ok
    /\ \E c \in SharedCells :
            /\ ~NearBackground(Cell(call.pre.buf, c[1], c[2]))
            /\ Cell(call.glyph, c[1] - call.pre.x, c[2] - CenteredY(call))
                    # Cell(call.pre.buf, c[1], c[2])
    /\ \E c \in SharedCells :
            /\ NearBackground(Cell(call.pre.buf, c[1], c[2]))
            /\ Cell(call.post.buf, c[1], c[2]) # Cell(call.pre.buf, c[1], c[2])

====
